---- MODULE Spec2Model ----
(***************************************************************************)
(* Model of pareto_efficient.py: calculate_min_ratio, build_graph,         *)
(* has_negative_cycle (networkx find_negative_cycle from source 0) and     *)
(* is_pareto_efficient.                                                    *)
(*                                                                         *)
(* Numbers.  A ratio returned by calculate_min_ratio is kept as the        *)
(* reduced fraction <<p, q>> whose correctly rounded quotient the Python   *)
(* float is; <<1, 0>> is float('inf').  The value math.log10 returns for   *)
(* it, and every sum the relaxation forms, is an IEEE-754 binary64 number, *)
(* kept exactly as sign and magnitude in units of 2^-54, the magnitude in  *)
(* two limbs hi * 2^30 + lo.  Addition rounds to 53 significant bits, ties *)
(* to even, as the hardware does.                                          *)
(***************************************************************************)
EXTENDS Integers, Sequences, FiniteSets, TLC

\* Bounds of the model: the caller's matrices have 1..MaxAgents rows and
\* 0..MaxGoods columns.
MaxAgents == 3
MaxGoods == 2
\* ... and at most MaxCells entries each.
MaxCells == 6
\* The caller that calls repeatedly passes at most MaxCallAgents rows.
MaxCallAgents == 2

\* The entries the caller may supply: per-unit values (all positive, or with
\* zeros among them) and held amounts.  Log10Table covers the ratios of the
\* products of a value and a non-zero amount.
PositiveVals == {1, 5}
ZeroVals == {0, 1}
UnitVals == {1}
Allocs == {0, 1, 3}

VARIABLES
  valuations,   \* the valuations argument of the current call
  allocation,   \* the allocation argument of the current call
  graph,        \* the graph object is_pareto_efficient holds (line 16)
  result,       \* "pending", the returned boolean, or the exception raised
  memo          \* an earlier call remembered by the caller: input and result

vars == <<valuations, allocation, graph, result, memo>>

None == -1

Range(s) == {s[x] : x \in DOMAIN s}

----------------------------------------------------------------------------
(* Python floats                                                           *)

SignificandBits == 53
LimbBase == 2^30

FloatOf(neg, hi, lo) == [inf |-> FALSE, neg |-> neg, hi |-> hi, lo |-> lo]
PosInf == [inf |-> TRUE, neg |-> FALSE, hi |-> 0, lo |-> 0]
FZero == FloatOf(FALSE, 0, 0)

BitLen(h) == Cardinality({t \in 0..30 : 2^t <= h})

MagLess(a, b) == a.hi < b.hi \/ (a.hi = b.hi /\ a.lo < b.lo)

MagAdd(a, b) ==
  LET lo == a.lo + b.lo
  IN  IF lo >= LimbBase THEN <<a.hi + b.hi + 1, lo - LimbBase>>
      ELSE <<a.hi + b.hi, lo>>

\* a - b for magnitudes with b <= a
MagSub(a, b) ==
  IF a.lo >= b.lo THEN <<a.hi - b.hi, a.lo - b.lo>>
  ELSE <<a.hi - b.hi - 1, a.lo + LimbBase - b.lo>>

\* round a magnitude to SignificandBits significant bits, ties to even
RoundMag(m) ==
  LET k == BitLen(m[1]) + 30 - SignificandBits
  IN  IF m[1] = 0 \/ k <= 0 THEN m
      ELSE LET q == 2^k
               rem == m[2] % q
               down == m[2] - rem
               up == 2 * rem > q \/ (2 * rem = q /\ (down \div q) % 2 = 1)
           IN  IF ~up THEN <<m[1], down>>
               ELSE IF down + q = LimbBase THEN <<m[1] + 1, 0>>
               ELSE <<m[1], down + q>>

Signed(neg, m) == IF m = <<0, 0>> THEN FZero ELSE FloatOf(neg, m[1], m[2])

\* float.__add__
FAdd(a, b) ==
  IF a.inf \/ b.inf THEN PosInf
  ELSE IF a.neg = b.neg THEN Signed(a.neg, RoundMag(MagAdd(a, b)))
  ELSE IF MagLess(a, b) THEN Signed(b.neg, RoundMag(MagSub(b, a)))
  ELSE Signed(a.neg, RoundMag(MagSub(a, b)))

\* float.__lt__
FLess(a, b) ==
  IF a.inf THEN FALSE
  ELSE IF b.inf THEN TRUE
  ELSE IF a.neg # b.neg THEN a.neg
  ELSE IF a.neg THEN MagLess(b, a)
  ELSE MagLess(a, b)

\* math.log10 of the float nearest p/q: the binary64 value CPython returns
\* (glibc log10), e.g. log10(1/3) = -8004766 * 2^-24 - 374330878 * 2^-54,
\* one unit below -log10(3)
Log10Table(r) ==
    CASE r = <<1, 15>> -> FloatOf(TRUE, 19731537, 95443968)
      [] r = <<1, 5>> -> FloatOf(TRUE, 11726770, 794854912)
      [] r = <<1, 3>> -> FloatOf(TRUE, 8004766, 374330878)
      [] r = <<3, 5>> -> FloatOf(TRUE, 3722004, 420524036)
      [] r = <<1, 1>> -> FloatOf(FALSE, 0, 0)
      [] r = <<5, 3>> -> FloatOf(FALSE, 3722004, 420524036)
      [] r = <<3, 1>> -> FloatOf(FALSE, 8004766, 374330877)
      [] r = <<5, 1>> -> FloatOf(FALSE, 11726770, 794854914)
      [] r = <<15, 1>> -> FloatOf(FALSE, 19731537, 95443968)

\* math.log10(x): +inf for +inf, ValueError ("math domain error") for 0
log10(r) ==
  IF r[2] = 0 THEN [raised |-> "", value |-> PosInf]
  ELSE IF r[1] = 0 THEN [raised |-> "ValueError", value |-> FZero]
  ELSE [raised |-> "", value |-> Log10Table(r)]

----------------------------------------------------------------------------
(* calculate_min_ratio                                                     *)

RECURSIVE GCD(_, _)
GCD(a, b) == IF b = 0 THEN a ELSE GCD(b, a % b)

\* the float p / q, q # 0
Quotient(p, q) == <<p \div GCD(p, q), q \div GCD(p, q)>>

InfRatio == <<1, 0>>

RatioLess(a, b) == a[1] * b[2] < b[1] * a[2]

\* mutant of MinRatio: max in place of min
MaxRatio(S) ==
  IF S = {} THEN InfRatio
  ELSE CHOOSE r \in S : \A s \in S : ~RatioLess(r, s)

\* min(ratios, default=float('inf'))
MinRatio(S) ==
  IF S = {} THEN InfRatio
  ELSE CHOOSE r \in S : \A s \in S : ~RatioLess(s, r)

\* the goods that pass the filter of the comprehension (line 76)
CoHeld(i, j, alloc) ==
  {k \in DOMAIN alloc[i] : alloc[i][k] # 0 /\ alloc[j][k] # 0}

\* mutant of Candidate: the held amounts left out of the ratio
CandidateOfValuesOnly(i, j, k, vals, alloc) == Quotient(vals[i][k], vals[j][k])

\* one element of non_zero_ratios (line 75), its divisor not 0
Candidate(i, j, k, vals, alloc) ==
  Quotient(vals[i][k] * alloc[i][k], vals[j][k] * alloc[j][k])

calculate_min_ratio(i, j, vals, alloc) ==
  LET held == CoHeld(i, j, alloc)
  IN  IF \E k \in held : vals[j][k] * alloc[j][k] = 0
      THEN [raised |-> "ZeroDivisionError", value |-> InfRatio]
      ELSE [raised |-> "",
            value |-> MinRatio({Candidate(i, j, k, vals, alloc) : k \in held})]

----------------------------------------------------------------------------
(* build_graph                                                             *)

\* mutant of DiGraph: the graph of the previous call used again
DiGraphReused == graph

\* nx.DiGraph(): nodes, successors in insertion order, edge weights
DiGraph == [nodes |-> {}, succ |-> <<>>, weight |-> <<>>]

add_node(G, u) ==
  IF u \in G.nodes THEN G
  ELSE [G EXCEPT !.nodes = @ \cup {u}, !.succ = (u :> <<>>) @@ @]

add_edge(G, u, v, w) ==
  LET G2 == add_node(add_node(G, u), v)
  IN  [G2 EXCEPT !.succ[u] = IF v \in Range(@) THEN @ ELSE Append(@, v),
                 !.weight = (<<u, v>> :> w) @@ @]

\* mutant of add_nodes_from: no vertex is added
add_nodes_from_nothing(G, u, n) == G

RECURSIVE add_nodes_from(_, _, _)
add_nodes_from(G, u, n) ==
  IF u >= n THEN G ELSE add_nodes_from(add_node(G, u), u + 1, n)

\* the two nested loops of lines 53-57, from pair (i, j) on
RECURSIVE AddEdges(_, _, _, _, _)
AddEdges(G, i, j, vals, alloc) ==
  LET n == Cardinality(DOMAIN vals)
  IN  IF i >= n THEN [raised |-> "", G |-> G]
      ELSE IF j >= n THEN AddEdges(G, i + 1, 0, vals, alloc)
      ELSE IF i = j THEN AddEdges(G, i, j + 1, vals, alloc)
      ELSE LET ratio == calculate_min_ratio(i, j, vals, alloc)
               selected_weight == log10(ratio.value)
           IN  IF ratio.raised # "" THEN [raised |-> ratio.raised, G |-> G]
               ELSE IF selected_weight.raised # ""
                    THEN [raised |-> selected_weight.raised, G |-> G]
               ELSE AddEdges(add_edge(G, i, j, selected_weight.value),
                             i, j + 1, vals, alloc)

build_graph(vals, alloc) ==
  AddEdges(add_nodes_from(DiGraph, 0, Cardinality(DOMAIN vals)), 0, 0, vals, alloc)

----------------------------------------------------------------------------
(* nx.find_negative_cycle(graph, 0), line 32: the library routine of       *)
(* networkx 3.x (algorithms/shortest_paths/weighted.py), a queue-based     *)
(* Bellman-Ford from the source that stops at the first vertex updated     *)
(* twice on one update path or enqueued len(G) times, then looks for the   *)
(* cycle in the predecessor lists.                                         *)

\* the dictionaries of _inner_bellman_ford when the queue holds the source:
\* a key that is absent reads as inf (dist), None (pred_edge), 0 (count)
BellmanFordInit(G, source) ==
  [q |-> <<source>>,
   dist |-> [v \in G.nodes |-> IF v = source THEN FZero ELSE PosInf],
   pred |-> [v \in G.nodes |-> <<>>],
   pred_edge |-> [v \in G.nodes |-> None],
   recent_update |-> [v \in G.nodes |-> <<None, None>>],
   count |-> [v \in G.nodes |-> 0],
   relaxed |-> {},
   found |-> None]

\* the loop "for v, e in G_succ[u].items()" over the successors vs left
RECURSIVE RelaxEdges(_, _, _, _, _)
RelaxEdges(G, st, u, dist_u, vs) ==
  IF vs = <<>> \/ st.found # None THEN st
  ELSE
    LET v == Head(vs)
        dist_v == FAdd(dist_u, G.weight[<<u, v>>])
    IN  IF FLess(dist_v, st.dist[v]) THEN
          LET hit == [st EXCEPT !.relaxed = @ \cup {<<u, v>>}]
          IN  IF v \in Range(st.recent_update[u]) THEN
                [hit EXCEPT !.pred[v] = Append(@, u), !.found = v]
              ELSE
                LET upd == [hit EXCEPT !.recent_update[v] =
                              IF st.pred_edge[v] = u THEN st.recent_update[u]
                              ELSE <<u, v>>]
                    count_v == st.count[v] + 1
                    set == [dist |-> dist_v, pred |-> <<u>>, pred_edge |-> u]
                IN  IF v \in Range(st.q) THEN
                      RelaxEdges(G, [upd EXCEPT !.dist[v] = dist_v,
                                                !.pred[v] = <<u>>,
                                                !.pred_edge[v] = u],
                                 u, dist_u, Tail(vs))
                    ELSE IF count_v = Cardinality(G.nodes) THEN
                      [upd EXCEPT !.q = Append(@, v), !.found = v]
                    ELSE
                      RelaxEdges(G, [upd EXCEPT !.q = Append(@, v),
                                                !.count[v] = count_v,
                                                !.dist[v] = dist_v,
                                                !.pred[v] = <<u>>,
                                                !.pred_edge[v] = u],
                                 u, dist_u, Tail(vs))
        ELSE IF ~st.dist[v].inf /\ dist_v = st.dist[v] THEN
          RelaxEdges(G, [st EXCEPT !.pred[v] = Append(@, u)], u, dist_u, Tail(vs))
        ELSE RelaxEdges(G, st, u, dist_u, Tail(vs))

\* the loop "while q" of _inner_bellman_ford
RECURSIVE inner_bellman_ford(_, _)
inner_bellman_ford(G, st) ==
  IF st.q = <<>> \/ st.found # None THEN st
  ELSE
    LET u == Head(st.q)
        popped == [st EXCEPT !.q = Tail(@)]
    IN  IF \A x \in DOMAIN popped.pred[u] : popped.pred[u][x] \notin Range(popped.q)
        THEN inner_bellman_ford(G, RelaxEdges(G, popped, u, popped.dist[u], G.succ[u]))
        ELSE inner_bellman_ford(G, popped)

\* the search of find_negative_cycle for a cycle through v in the
\* predecessor lists: stack of <<node, preds left>>, neg_cycle, seen
RECURSIVE FindCycle(_, _, _, _, _)
FindCycle(pred, v, stack, neg_cycle, seen) ==
  IF stack = <<>> THEN "NetworkXUnbounded"
  ELSE
    LET top == stack[Len(stack)]
        node == top[1]
        preds == top[2]
    IN  IF v \in Range(preds) THEN "cycle"
        ELSE IF preds # <<>> THEN
          LET nbr == preds[Len(preds)]
              rest == SubSeq(preds, 1, Len(preds) - 1)
              below == [stack EXCEPT ![Len(stack)] = <<node, rest>>]
          IN  IF nbr \notin seen
              THEN FindCycle(pred, v, Append(below, <<nbr, pred[nbr]>>),
                             Append(neg_cycle, node), seen \cup {nbr})
              ELSE FindCycle(pred, v, below, neg_cycle, seen)
        ELSE IF neg_cycle # <<>> THEN
          FindCycle(pred, v, SubSeq(stack, 1, Len(stack) - 1),
                    SubSeq(neg_cycle, 1, Len(neg_cycle) - 1), seen)
        ELSE "NetworkXError"

\* what the call ends with: "cycle" (a list is returned) or the exception
find_negative_cycle(G, source) ==
  IF source \notin G.nodes THEN "NodeNotFound"
  ELSE
    LET st == inner_bellman_ford(G, BellmanFordInit(G, source))
        v == st.found
    IN  IF v = None THEN "NetworkXError"
        ELSE FindCycle(st.pred, v, << <<v, st.pred[v]>> >>, <<>>, {v})

----------------------------------------------------------------------------
(* has_negative_cycle, is_pareto_efficient                                 *)

\* "True" / "False", or the exception the except clause does not catch
has_negative_cycle(G) ==
  LET outcome == find_negative_cycle(G, 0)
  IN  IF outcome = "cycle" THEN "True"
      ELSE IF outcome = "NetworkXError" THEN "False"
      ELSE outcome

Negate(b) == IF b = "True" THEN "False" ELSE IF b = "False" THEN "True" ELSE b

\* the returned boolean as "True" / "False", or the exception raised
is_pareto_efficient(vals, alloc) ==
  LET built == build_graph(vals, alloc)
  IN  IF built.raised # "" THEN built.raised
      ELSE Negate(has_negative_cycle(built.G))

---------------------------------------------------------------------------------------------------------------------------------------------------
(* The caller                                                              *)

Matrices(n, m, S) == [0..(n - 1) -> [0..(m - 1) -> S]]

\* the well-formed inputs with values drawn from V, of at most N agents and
\* M goods
InputsOver(V, N, M) ==
  UNION {Matrices(n, m, V) \X Matrices(n, m, Allocs) :
           <<n, m>> \in {s \in (1..N) \X (0..M) : s[1] * s[2] <= MaxCells}}

Inputs ==
  InputsOver(PositiveVals, MaxAgents, MaxGoods)
    \cup InputsOver(ZeroVals, MaxAgents, MaxGoods)

\* the inputs of the caller that calls repeatedly: one good or none
CallInputs == InputsOver(UnitVals, MaxCallAgents, 1)

NoGraph == [nodes |-> {}, succ |-> <<>>, weight |-> <<>>]
NoCall == [valuations |-> <<>>, allocation |-> <<>>, result |-> "pending",
           between |-> FALSE]

\* the caller has its two matrices and is about to call
InitWith(S) ==
  /\ \E inp \in S : valuations = inp[1] /\ allocation = inp[2]
  /\ graph = NoGraph
  /\ result = "pending"
  /\ memo = NoCall

Init == InitWith(Inputs)

\* is_pareto_efficient(valuations, allocation) runs to its end
Call ==
  /\ result = "pending"
  /\ LET built == build_graph(valuations, allocation)
     IN  /\ graph' = IF built.raised = "" THEN built.G ELSE graph
         /\ result' = is_pareto_efficient(valuations, allocation)
  /\ UNCHANGED <<valuations, allocation, memo>>

Next == Call

Spec == Init /\ [][Next]_vars

\* the caller calls again, with matrices of its choice
CallWith(inp) ==
  /\ result # "pending"
  /\ valuations' = inp[1]
  /\ allocation' = inp[2]
  /\ LET built == build_graph(inp[1], inp[2])
     IN  /\ graph' = IF built.raised = "" THEN built.G ELSE graph
         /\ result' = is_pareto_efficient(inp[1], inp[2])
  /\ memo' = IF memo # NoCall /\ <<inp[1], inp[2]>> # <<memo.valuations, memo.allocation>>
             THEN [memo EXCEPT !.between = TRUE]
             ELSE memo

\* the caller keeps the arguments and the result of the call just made;
\* memo.between records that it has since called with other arguments
Remember ==
  /\ result # "pending"
  /\ memo = NoCall
  /\ memo' = [valuations |-> valuations, allocation |-> allocation,
              result |-> result, between |-> FALSE]
  /\ UNCHANGED <<valuations, allocation, graph, result>>

InitCalls == InitWith(CallInputs)

NextCalls ==
  \/ Call
  \/ \E inp \in CallInputs : CallWith(inp)
  \/ Remember

SpecCalls == InitCalls /\ [][NextCalls]_vars

----------------------------------------------------------------------------
(* Vocabulary of the properties                                            *)

Agents == DOMAIN valuations
Goods == IF Agents = {} THEN {} ELSE DOMAIN valuations[0]
Pairs == {e \in Agents \X Agents : e[1] # e[2]}

\* the call has returned a boolean
Returned == result \in {"True", "False"}

PositiveInput == \A i \in Agents : \A k \in Goods : valuations[i][k] > 0

EmptyHanded(i) == \A k \in Goods : allocation[i][k] = 0

\* the value calculate_min_ratio returns for the current input
Ratio(i, j) == calculate_min_ratio(i, j, valuations, allocation).value

\* the directed simple cycles over the agents in S, as vertex sequences
SimpleCycles(S) ==
  UNION {{c \in [1..k -> S] : \A x, y \in 1..k : x # y => c[x] # c[y]} :
           k \in 2..Cardinality(S)}

\* the product of the min-ratios along the first x edges of cycle c
RECURSIVE RatioProduct(_, _)
RatioProduct(c, x) ==
  IF x = 0 THEN <<1, 1>>
  ELSE LET r == Ratio(c[x], c[(x % Len(c)) + 1])
           rest == RatioProduct(c, x - 1)
       IN  <<rest[1] * r[1], rest[2] * r[2]>>

\* cycle c has strictly negative weight: its product of min-ratios is < 1
NegativeCycle(c) ==
  LET p == RatioProduct(c, Len(c)) IN p[2] # 0 /\ p[1] < p[2]

NegativeCycleAmong(S) == \E c \in SimpleCycles(S) : NegativeCycle(c)

\* the goods both hold, and the cross-multiplied comparison of the
\* candidate ratios (v_i a_i)/(v_j a_j) of goods k and l
Shared(i, j) == {k \in Goods : allocation[i][k] # 0 /\ allocation[j][k] # 0}
Num(i, k) == valuations[i][k] * allocation[i][k]
CandLeq(i, j, k, l) == Num(i, k) * Num(j, l) <= Num(i, l) * Num(j, k)

NegInf == [inf |-> TRUE, neg |-> TRUE, hi |-> 0, lo |-> 0]

SwapRows(mat, a, b) ==
  [i \in DOMAIN mat |-> IF i = a THEN mat[b] ELSE IF i = b THEN mat[a] ELSE mat[i]]

----------------------------------------------------------------------------
(* Properties                                                              *)

\* C1: on positive valuations is_pareto_efficient returns True if and only
\* if no directed cycle of the exchange graph has strictly negative weight
\* (product of min-ratios < 1), whichever vertices the cycle passes through.
C1_TrueIffNoNegativeCycle ==
  (Returned /\ PositiveInput) => (result = "True" <=> ~NegativeCycleAmong(Agents))

\* C2: swapping rows a and b of both matrices together does not change the
\* boolean is_pareto_efficient returns.
C2_RowSwapInvariant ==
  (Returned /\ PositiveInput) =>
    \A a, b \in Agents :
      is_pareto_efficient(SwapRows(valuations, a, b), SwapRows(allocation, a, b))
        = result

\* C3: on every rectangular input of finite non-negative entries the call
\* ends by returning a boolean, never in an exception.
C3_Total == result # "pending" => Returned

\* C4: when calculate_min_ratio(i, j) is 0, build_graph completes and edge
\* i->j carries the weight -infinity into negative-cycle detection.
C4_ZeroRatioGivesNegInf ==
  result # "pending" =>
    \A e \in Pairs :
      calculate_min_ratio(e[1], e[2], valuations, allocation)
          = [raised |-> "", value |-> <<0, 1>>]
        => (Returned /\ graph.weight[e] = NegInf)

\* C5: for two agents with positive valuations the call returns False
\* exactly when they co-hold a good and the product of the two min-ratios
\* is < 1; it returns True when they co-hold none or the product is 1.
C5_TwoAgents ==
  (Returned /\ PositiveInput /\ Agents = {0, 1}) =>
    (result = "False" <=>
       (Shared(0, 1) # {} /\ NegativeCycle([x \in 1..2 |-> x - 1])))

\* C6: with a single agent, whatever its two rows hold, the graph has vertex
\* 0 and no edge, and the call returns True.
C6_SingleAgent ==
  (result # "pending" /\ Agents = {0}) =>
    /\ result = "True"
    /\ graph.nodes = {0}
    /\ DOMAIN graph.weight = {}
    /\ graph.succ[0] = <<>>

C6_Witness ==
  /\ result = "True"
  /\ Agents = {0}
  /\ \E k \in Goods : allocation[0][k] # 0 /\ valuations[0][k] = 0

\* C7: when agent i holds nothing, every edge out of i and into i weighs
\* +infinity and is never relaxed, and the call returns False only if the
\* other agents have a strictly negative cycle among them.
C7_EmptyHanded ==
  Returned =>
    \A i \in Agents :
      EmptyHanded(i) =>
        /\ \A e \in Pairs : i \in {e[1], e[2]} =>
             /\ graph.weight[e] = PosInf
             /\ e \notin inner_bellman_ford(graph, BellmanFordInit(graph, 0)).relaxed
        /\ result = "False" => NegativeCycleAmong(Agents \ {i})

C9_CompleteGraph ==
  (result # "pending" /\ PositiveInput) =>
    /\ Returned
    /\ graph.nodes = Agents
    /\ DOMAIN graph.weight = Pairs
    /\ \A i \in Agents :
         /\ Len(graph.succ[i]) = Cardinality(Agents) - 1
         /\ Range(graph.succ[i]) = Agents \ {i}
    /\ \A e \in Pairs :
         LET i == e[1]
             j == e[2]
         IN  IF Shared(i, j) = {} THEN graph.weight[e] = PosInf
             ELSE \E k \in Shared(i, j) :
                    /\ \A l \in Shared(i, j) : CandLeq(i, j, k, l)
                    /\ graph.weight[e] =
                         Log10Table(Quotient(Num(i, k), Num(j, k)))

C9_Witness ==
  /\ Returned
  /\ PositiveInput
  /\ Cardinality(Agents) = 3
  /\ \E e \in Pairs : graph.weight[e] = PosInf
  /\ \E e \in Pairs :
       /\ Cardinality(Shared(e[1], e[2])) = 2
       /\ \E k, l \in Shared(e[1], e[2]) : ~CandLeq(e[1], e[2], k, l)
       /\ graph.weight[e].neg

\* the statements of C10 about the quotients themselves
RatiosReciprocal(i, j) ==
  LET r == Ratio(i, j)
      s == Ratio(j, i)
  IN  /\ (r[2] # 0) <=> (s[2] # 0)
      /\ r[2] # 0 =>
           /\ r[1] * s[1] <= r[2] * s[2]
           /\ (r[1] * s[1] = r[2] * s[2]) <=>
                \A k, l \in Shared(i, j) : CandLeq(i, j, k, l)

\* C10, as stated: calculate_min_ratio(i, j) is finite iff
\* calculate_min_ratio(j, i) is, their product is <= 1 with equality exactly
\* when all co-held goods have the same candidate ratio, and the two-edge
\* cycle i->j->i never has positive weight.
C10_AsStated ==
  (Returned /\ PositiveInput) =>
    \A e \in Pairs :
      /\ RatiosReciprocal(e[1], e[2])
      /\ Ratio(e[1], e[2])[2] # 0 =>
           ~FLess(FZero, FAdd(graph.weight[e], graph.weight[<<e[2], e[1]>>]))

\* C10, amended: the same statements about the exact quotients; the float
\* weight of the two-edge cycle is left out, as rounding can make it positive.
C10_ExactQuotients ==
  (result # "pending" /\ PositiveInput) =>
    \A e \in Pairs : RatiosReciprocal(e[1], e[2])

C10_Witness ==
  /\ Returned
  /\ PositiveInput
  /\ \E e \in Pairs :
       /\ Ratio(e[1], e[2])[1] * Ratio(e[2], e[1])[1]
            < Ratio(e[1], e[2])[2] * Ratio(e[2], e[1])[2]
       /\ Ratio(e[1], e[2])[2] # 0
  /\ \E e \in Pairs :
       /\ Cardinality(Shared(e[1], e[2])) = 2
       /\ Ratio(e[1], e[2])[1] * Ratio(e[2], e[1])[1]
            = Ratio(e[1], e[2])[2] * Ratio(e[2], e[1])[2]

====
